---- MODULE Spec2Model ----
(***************************************************************************)
(* PageRank (src/pagerank.py): transition_model, sample_pagerank and       *)
(* iterate_pagerank over a corpus, a mapping page -> set of linked pages.  *)
(*                                                                         *)
(* Arithmetic.  The code computes with floats.  Here every quantity is an  *)
(* exact rational held as an integer numerator over a denominator that is  *)
(* fixed for the corpus:                                                   *)
(*   - a transition probability is a numerator over ProbDen(corpus, d);    *)
(*   - a rank of iterate_pagerank is a numerator over RankDen(corpus),     *)
(*     i.e. N * 10^5, so that both the initial 1/N and every value         *)
(*     rounded to 5 decimals are integers.                                 *)
(* round(x, 5) rounds the float x, which is the exact value up to an error *)
(* of about 1e-16.  When the exact value is not half-way between two       *)
(* 5-decimal numbers the result is the nearest one; when it is exactly     *)
(* half-way, the float error decides, and the model takes both results.    *)
(* The history variable tied records that such a half-way case occurred.   *)
(* The sums inside a sweep are exact, so only the order of the outer loop  *)
(* `for page in corpus` matters to a sweep.                                *)
(***************************************************************************)
EXTENDS Integers, Sequences, FiniteSets

VARIABLES corpus, crawled, damping, pc, called, outcome, ranks,
          n, sample, prevSample, prevDistribution,
          probabilityDistribution, priorDistribution, tied, other

vars == <<corpus, crawled, damping, pc, called, outcome, ranks,
          n, sample, prevSample, prevDistribution,
          probabilityDistribution, priorDistribution, tied, other>>

sampleVars == <<n, sample, prevSample, prevDistribution>>
iterVars == <<probabilityDistribution, priorDistribution, tied>>

(* ---------------------------- bounds ----------------------------------- *)
\* Largest number of pages of a corpus.
MaxPages == 3
\* Largest number of samples n asked of sample_pagerank.
MaxSamples == 2
\* Number of pages of the corpora of the fair specification SpecFair.
FairPages == 4

(* --------------------------- constants --------------------------------- *)
\* round(..., 5): ranks are rounded to multiples of 1/Scale.
Scale == 100000

\* Damping factors <<numerator, denominator>>; <<17, 20>> is DAMPING = 0.85.
Dampings == {<<1, 2>>, <<17, 20>>}
\* A damping factor close to one, for the sum of the iterated ranks.
HighDampings == {<<99, 100>>}

\* The empty dict {}.
EmptyDict == <<>>

(* ---------------------------- helpers ---------------------------------- *)
RECURSIVE Gcd(_, _)
Gcd(a, b) == IF b = 0 THEN a ELSE Gcd(b, a % b)

RECURSIVE LcmUpTo(_)
LcmUpTo(k) == IF k <= 1 THEN 1 ELSE (LcmUpTo(k - 1) * k) \div Gcd(LcmUpTo(k - 1), k)

RECURSIVE SumOver(_, _)
SumOver(f, S) ==
    IF S = {} THEN 0
    ELSE LET x == CHOOSE y \in S : TRUE IN f[x] + SumOver(f, S \ {x})

RECURSIVE Count(_, _)
Count(s, x) ==
    IF s = <<>> THEN 0
    ELSE (IF Head(s) = x THEN 1 ELSE 0) + Count(Tail(s), x)

Range(s) == {s[i] : i \in DOMAIN s}

Pages(c) == DOMAIN c
NumPages(c) == Cardinality(DOMAIN c)

(* crawl: every page maps to the set of its links to OTHER pages of the    *)
(* corpus (the page itself and unknown pages are filtered out).            *)
CorporaOfSize(k) ==
    {c \in [1..k -> SUBSET (1..k)] : \A p \in 1..k : p \notin c[p]}

Corpora == UNION {CorporaOfSize(k) : k \in 0..MaxPages}

\* The order in which `for page in corpus` enumerates the dict: its insertion
\* order.  Corpora holds every labelling of every graph, so enumerating a
\* corpus in the order of its labels covers every insertion order.
KeyOrder(c) == [i \in 1..NumPages(c) |-> i]

Permutations(S) ==
    {f \in [1..Cardinality(S) -> S] : \A x \in S : \E i \in DOMAIN f : f[i] = x}

(* ------------------------- transition_model ---------------------------- *)
\* Denominator of the probabilities of TransitionModel.
ProbDen(c, d) == d[2] * LcmUpTo(NumPages(c))

\* transition_model without `baseProbability *= (1-damping_factor)`.
TransitionModelUndampedBase(c, page, d) ==
    LET linkedPages == c[page]
        L == LcmUpTo(NumPages(c))
        baseProbability == d[2] * (L \div NumPages(c))
        additionalProbability ==
            IF Cardinality(linkedPages) # 0
            THEN d[1] * (L \div Cardinality(linkedPages))
            ELSE 0
    IN [pages \in Pages(c) |->
            IF pages \in linkedPages
            THEN baseProbability + additionalProbability
            ELSE baseProbability]

\* transition_model without the division by len(linkedPages).
TransitionModelUndivided(c, page, d) ==
    LET linkedPages == c[page]
        L == LcmUpTo(NumPages(c))
        baseProbability ==
            IF Cardinality(linkedPages) # 0
            THEN (d[2] - d[1]) * (L \div NumPages(c))
            ELSE d[2] * (L \div NumPages(c))
        additionalProbability ==
            IF Cardinality(linkedPages) # 0 THEN d[1] * L ELSE 0
    IN [pages \in Pages(c) |->
            IF pages \in linkedPages
            THEN baseProbability + additionalProbability
            ELSE baseProbability]

TransitionModel(c, page, d) ==
    LET linkedPages == c[page]
        L == LcmUpTo(NumPages(c))
        uniform == d[2] * (L \div NumPages(c))
        baseProbability ==
            IF Cardinality(linkedPages) # 0
            THEN (d[2] - d[1]) * (L \div NumPages(c))
            ELSE uniform
        additionalProbability ==
            IF Cardinality(linkedPages) # 0
            THEN d[1] * (L \div Cardinality(linkedPages))
            ELSE 0
    IN [pages \in Pages(c) |->
            IF pages \in linkedPages
            THEN baseProbability + additionalProbability
            ELSE baseProbability]

(* -------------------------- iterate_pagerank --------------------------- *)
\* Denominator of the ranks of iterate_pagerank.
RankDen(c) == NumPages(c) * Scale

InitialDistribution(c) == [key \in Pages(c) |-> Scale]

\* Normalization that links a page without links to every OTHER page.
NormalizedOtherPages(c) ==
    [key \in Pages(c) |-> IF c[key] = {} THEN Pages(c) \ {key} ELSE c[key]]

\* A page without links gets a link to every page of the corpus.
Normalized(c) == [key \in Pages(c) |-> IF c[key] = {} THEN Pages(c) ELSE c[key]]

\* round(x, 5) of x = a / (b * Scale): the roundings it can give, each with
\* whether x is exactly half-way between two multiples of 1/Scale.
Roundings(a, b) ==
    {[value |-> (a \div b) + up, tie |-> (2 * (a % b) = b)] :
        up \in {u \in {0, 1} : IF u = 0 THEN 2 * (a % b) <= b ELSE 2 * (a % b) >= b}}

\* The new rank of page from the distribution dist (lines 159-171), as the
\* roundings of (1-d)/N + d * sum, in units of 1/RankDen(c).
NewRank(c, d, dist, page) ==
    LET N == NumPages(c)
        L == LcmUpTo(N)
        pagesWithInwardLinks == {nestedPage \in Pages(c) : page \in c[nestedPage]}
        share == [subPage \in Pages(c) |->
                     dist[subPage] * (L \div Cardinality(c[subPage]))]
    IN UNION {
         {[value |-> r.value * N, tie |-> r.tie] :
            r \in Roundings((d[2] - d[1]) * Scale * L + d[1] * sum, d[2] * N * L)} :
         sum \in {SumOver(share, pagesWithInwardLinks)}}

\* Line 170: probabilityDistribution[page] = round(...), in place.
UpdatePage(c, d, page, st) ==
    {[dist |-> [st.dist EXCEPT ![page] = r.value], tie |-> (st.tie \/ r.tie)] :
        r \in NewRank(c, d, st.dist, page)}

\* One sweep `for page in corpus` from position i of the enumeration keys:
\* every page is updated in place, so later pages read the ranks already
\* updated.  states are the distributions reached so far.
RECURSIVE SweepFrom(_, _, _, _, _)
SweepFrom(c, d, keys, states, i) ==
    IF i > Len(keys) THEN states
    ELSE SweepFrom(c, d, keys,
                   UNION {UpdatePage(c, d, keys[i], st) : st \in states}, i + 1)

Sweep(c, d, keys, dist) ==
    SweepFrom(c, d, keys, {[dist |-> dist, tie |-> FALSE]}, 1)

(* ------------------------------ states --------------------------------- *)
NoRun == [pc |-> "none"]

\* The module is loaded with a damping factor; no corpus is read yet.
InitWith(ds) ==
    /\ corpus = EmptyDict
    /\ crawled = EmptyDict
    /\ damping \in ds
    /\ pc = "start"
    /\ called = "none"
    /\ outcome = "none"
    /\ ranks = EmptyDict
    /\ n = 0
    /\ sample = <<>>
    /\ prevSample = 0
    /\ prevDistribution = EmptyDict
    /\ probabilityDistribution = EmptyDict
    /\ priorDistribution = EmptyDict
    /\ tied = FALSE
    /\ other = NoRun

Init == InitWith(Dampings)

\* Line 14: corpus = crawl(directory), one of the corpora cs.
CrawlFrom(cs) ==
    /\ pc = "start"
    /\ corpus' \in cs
    /\ crawled' = corpus'
    /\ pc' = "idle"
    /\ UNCHANGED <<damping, called, outcome, ranks, n, sample, prevSample,
                   prevDistribution, probabilityDistribution,
                   priorDistribution, tied, other>>

Crawl == CrawlFrom(Corpora)

CanCall == pc \in {"idle", "returned"}

(* --------------------------- sample_pagerank --------------------------- *)
\* Lines 102-111.  random.choice of an empty list raises IndexError.
SampleCall ==
    /\ CanCall
    /\ called' = "sample_pagerank"
    /\ ranks' = EmptyDict
    /\ \E k \in 1..MaxSamples :
        /\ n' = k
        /\ IF Pages(corpus) = {}
           THEN /\ pc' = "raised"
                /\ outcome' = "IndexError"
                /\ UNCHANGED <<sample, prevSample>>
           ELSE \E firstSample \in Pages(corpus) :
                /\ sample' = <<firstSample>>
                /\ prevSample' = firstSample
                /\ pc' = "sampling"
                /\ outcome' = "none"
    /\ prevDistribution' = EmptyDict
    /\ UNCHANGED <<corpus, crawled, damping, iterVars, other>>

\* The loop as `for samples in range(0, n)`: one sample too many.
LoopDoneLate(s, k) == Len(s) >= k + 1

\* Line 114: `for samples in range(1, n)` ends once n samples are recorded.
LoopDone(s, k) == Len(s) >= k

\* Lines 114-132: one iteration of `for samples in range(1, n)`.
SampleStep ==
    /\ pc = "sampling"
    /\ ~LoopDone(sample, n)
    /\ LET dist == TransitionModel(corpus, prevSample, damping)
       IN /\ prevDistribution' = dist
          /\ \E newSample \in {page \in DOMAIN dist : dist[page] > 0} :
                /\ sample' = Append(sample, newSample)
                /\ prevSample' = newSample
    /\ UNCHANGED <<corpus, crawled, damping, pc, called, outcome, ranks, n,
                   iterVars, other>>

\* Line 135: the frequency of every page of set(sample), as a count over n.
SampleResult(s) == [i \in Range(s) |-> Count(s, i)]

SampleReturn ==
    /\ pc = "sampling"
    /\ LoopDone(sample, n)
    /\ ranks' = SampleResult(sample)
    /\ pc' = "returned"
    /\ outcome' = "returned"
    /\ sample' = <<>>
    /\ prevSample' = 0
    /\ prevDistribution' = EmptyDict
    /\ UNCHANGED <<corpus, crawled, damping, called, n, iterVars, other>>

(* -------------------------- iterate_pagerank --------------------------- *)
\* Lines 148-155.
IterateCall ==
    /\ CanCall
    /\ called' = "iterate_pagerank"
    /\ ranks' = EmptyDict
    /\ outcome' = "none"
    /\ n' = 0
    /\ probabilityDistribution' = InitialDistribution(corpus)
    /\ corpus' = Normalized(corpus)
    /\ priorDistribution' = EmptyDict
    /\ tied' = FALSE
    /\ pc' = "iterating"
    /\ UNCHANGED <<crawled, damping, sample, prevSample, prevDistribution, other>>

\* Line 156: `while probabilityDistribution != priorDistribution`.
LoopCondition == pc = "iterating" /\ probabilityDistribution # priorDistribution

\* Lines 156-171: one iteration of the while loop.
SweepStep ==
    /\ LoopCondition
    /\ priorDistribution' = probabilityDistribution
    /\ \E res \in Sweep(corpus, damping, KeyOrder(corpus), probabilityDistribution) :
        /\ probabilityDistribution' = res.dist
        /\ tied' = (tied \/ res.tie)
    /\ UNCHANGED <<corpus, crawled, damping, pc, called, outcome, ranks,
                   sampleVars, other>>

\* Line 173.
IterateReturn ==
    /\ pc = "iterating"
    /\ ~LoopCondition
    /\ ranks' = probabilityDistribution
    /\ pc' = "returned"
    /\ outcome' = "returned"
    /\ UNCHANGED <<corpus, crawled, damping, called, sampleVars, iterVars, other>>

(* --------------------------- specifications ---------------------------- *)
SampleActions == SampleCall \/ SampleStep \/ SampleReturn
IterateActions == IterateCall \/ SweepStep \/ IterateReturn

Next == Crawl \/ SampleActions \/ IterateActions
NextSample == Crawl \/ SampleActions
NextIterate == Crawl \/ IterateActions

\* sample_pagerank and iterate_pagerank called in any order on one corpus.
Spec == Init /\ [][Next]_vars

\* sample_pagerank alone.
SpecSample == Init /\ [][NextSample]_vars

\* iterate_pagerank alone.
SpecIterate == Init /\ [][NextIterate]_vars

\* iterate_pagerank with a damping factor close to one.
InitHigh == InitWith(HighDampings)
SpecHighDamping == InitHigh /\ [][NextIterate]_vars

\* iterate_pagerank on the corpora of FairPages pages, damping 1/2; the while
\* loop keeps running: a sweep that can run does run, and so does the return.
InitFair == InitWith({<<1, 2>>})
CrawlFair == CrawlFrom(CorporaOfSize(FairPages))
NextFair == CrawlFair \/ IterateActions
\* Weak fairness of SweepStep.  SweepStep is enabled exactly when
\* LoopCondition holds (Sweep gives a distribution from every distribution,
\* and the step changes priorDistribution), so this is WF_vars(SweepStep)
\* with ENABLED <<SweepStep>>_vars written out.
FairSweep == []<>(~LoopCondition) \/ []<><<SweepStep>>_vars
SpecFair ==
    InitFair /\ [][NextFair]_vars /\ FairSweep /\ WF_vars(IterateReturn)

(* A second run of iterate_pagerank on a dict that holds the same mapping   *)
(* as the first run's corpus but enumerates its pages in the order keys.    *)
OtherCall ==
    /\ pc = "returned"
    /\ called = "iterate_pagerank"
    /\ other.pc = "none"
    /\ \E keys \in Permutations(Pages(crawled)) :
        other' = [pc |-> "iterating", keys |-> keys, corpus |-> Normalized(crawled),
                  probabilityDistribution |-> InitialDistribution(crawled),
                  priorDistribution |-> EmptyDict, tied |-> FALSE, ranks |-> EmptyDict]
    /\ UNCHANGED <<corpus, crawled, damping, pc, called, outcome, ranks,
                   sampleVars, iterVars>>

OtherSweep ==
    /\ other.pc = "iterating"
    /\ other.probabilityDistribution # other.priorDistribution
    /\ \E res \in Sweep(other.corpus, damping, other.keys, other.probabilityDistribution) :
        other' = [other EXCEPT !.priorDistribution = other.probabilityDistribution,
                               !.probabilityDistribution = res.dist,
                               !.tied = (other.tied \/ res.tie)]
    /\ UNCHANGED <<corpus, crawled, damping, pc, called, outcome, ranks,
                   sampleVars, iterVars>>

OtherReturn ==
    /\ other.pc = "iterating"
    /\ other.probabilityDistribution = other.priorDistribution
    /\ other' = [other EXCEPT !.pc = "returned", !.ranks = other.probabilityDistribution]
    /\ UNCHANGED <<corpus, crawled, damping, pc, called, outcome, ranks,
                   sampleVars, iterVars>>

FirstRun == other.pc = "none" /\ IterateActions

NextRuns == Crawl \/ FirstRun \/ OtherCall \/ OtherSweep \/ OtherReturn

\* Two runs of iterate_pagerank, one after the other.
SpecRuns == Init /\ [][NextRuns]_vars

(* ------------------------------ claims --------------------------------- *)
Closed(c) == \A p \in Pages(c) : c[p] \subseteq Pages(c)

\* The page prevDistribution was computed for: the sample before the last.
StepPage == sample[Len(sample) - 1]

SampleReturned == pc = "returned" /\ called = "sample_pagerank"
IterateReturned == pc = "returned" /\ called = "iterate_pagerank"

Abs(x) == IF x < 0 THEN 0 - x ELSE x

\* C1: the distribution transition_model returns for page p gives every page
\* q of the corpus 1/N when p has no links, and otherwise (1-d)/N + d/k when
\* p links to q and (1-d)/N when it does not (N pages, k links of p).
C1_TransitionValues ==
    prevDistribution # EmptyDict =>
        LET N == NumPages(corpus)
            k == Cardinality(corpus[StepPage])
            den == ProbDen(corpus, damping)
        IN \A q \in Pages(corpus) :
             /\ q \in DOMAIN prevDistribution
             /\ IF k = 0
                THEN prevDistribution[q] * N = den
                ELSE IF q \in corpus[StepPage]
                THEN prevDistribution[q] * N * k * damping[2]
                       = den * ((damping[2] - damping[1]) * k + damping[1] * N)
                ELSE prevDistribution[q] * N * damping[2]
                       = den * (damping[2] - damping[1])

C1_Witness ==
    /\ prevDistribution # EmptyDict
    /\ NumPages(corpus) = 3
    /\ Cardinality(corpus[StepPage]) = 1

\* C2: on a corpus whose links all are pages of it, the distribution
\* transition_model returns has exactly one entry per page, no negative
\* value, and its values sum to 1.
C2_TransitionIsDistribution ==
    (prevDistribution # EmptyDict /\ Closed(corpus)) =>
        /\ DOMAIN prevDistribution = Pages(corpus)
        /\ \A q \in DOMAIN prevDistribution : prevDistribution[q] >= 0
        /\ SumOver(prevDistribution, DOMAIN prevDistribution)
             = ProbDen(corpus, damping)

C2_Witness ==
    /\ prevDistribution # EmptyDict
    /\ Closed(corpus)
    /\ Cardinality(corpus[StepPage]) = 2

\* C3: the mapping sample_pagerank returns has an entry for every page of
\* the corpus (rank 0 for a page the walk never visited).
C3_EveryPageRanked ==
    SampleReturned => DOMAIN ranks = Pages(corpus)

\* C4: after every sweep of iterate_pagerank the rank of each page is the
\* value computed from the distribution as it was before the sweep.
C4_SimultaneousUpdate ==
    (pc = "iterating" /\ priorDistribution # EmptyDict) =>
        \A p \in Pages(corpus) :
            probabilityDistribution[p]
                \in {r.value : r \in NewRank(corpus, damping, priorDistribution, p)}

\* C5: the ranks iterate_pagerank returns for a non-empty corpus sum to 1
\* within 1e-3.  Runs in which a rounding is exactly half-way are set aside:
\* there the model takes both roundings and the code only one of them.
C5_RanksSumToOne ==
    (IterateReturned /\ Pages(corpus) # {} /\ ~tied) =>
        1000 * Abs(SumOver(ranks, DOMAIN ranks) - RankDen(corpus)) <= RankDen(corpus)

\* C6: on a corpus without pages both sample_pagerank and iterate_pagerank
\* end in an error and return no mapping.  Any raised exception is taken for
\* the InvalidInput error here.
C6_EmptyCorpusIsInvalidInput ==
    (Pages(corpus) = {} /\ pc \in {"returned", "raised"}) =>
        (pc = "raised" /\ outcome # "returned" /\ ranks = EmptyDict)

\* C7: two runs of iterate_pagerank on the same mapping and damping return
\* the same ranks, whatever the order in which the pages are enumerated.
\* Runs in which a rounding is exactly half-way are set aside.
C7_SameRanksInEveryOrder ==
    (IterateReturned /\ other.pc = "returned" /\ ~tied /\ ~other.tied) =>
        other.ranks = ranks

\* C8: sample_pagerank records exactly n samples, so the visit counts of the
\* returned mapping add up to n (the frequencies count/n add up to 1).
C8_ExactlyNSamples ==
    /\ pc = "sampling" => (Len(sample) >= 1 /\ Len(sample) <= n)
    /\ SampleReturned => SumOver(ranks, DOMAIN ranks) = n

C8_Witness ==
    /\ SampleReturned
    /\ n = 2
    /\ Cardinality(DOMAIN ranks) >= 2

\* C9: the sweep loop of iterate_pagerank eventually ends and the function
\* returns.  Runs in which a rounding is exactly half-way are set aside:
\* there the model takes both roundings and the code only one of them.
C9_SweepsTerminate == (pc = "iterating") ~> (pc = "returned" \/ tied)

====
